---- MODULE Spec2Model ----
(***************************************************************************)
(* XParser (Lightning web component): the expression tokenizer, the        *)
(* operation registry, and the Tree/Node evaluator of                      *)
(* force-app/main/default/lwc/xParser.                                     *)
(*                                                                         *)
(* One behaviour of the model is one call of one method on an XParser      *)
(* component or on a Node: Init draws the method and its arguments, the    *)
(* lifecycle hook connectedCallback may or may not have run before the     *)
(* call, and the actions run the method as written.  tokenizeExpression    *)
(* is run one loop iteration per step; the other methods are one step.     *)
(*                                                                         *)
(* JavaScript values are tagged records; a string is the sequence of its   *)
(* characters; a call ends in a completion: a returned value or a thrown   *)
(* error.                                                                  *)
(***************************************************************************)
EXTENDS Integers, Sequences, FiniteSets, TLC

VARIABLES
    xparser,        \* the fields of the XParser component
    method,         \* the method being called
    args,           \* its arguments (and, for Node methods, its receiver)
    pc,             \* "idle" | "loop" (inside tokenizeExpression's for) | "done"
    tokens,         \* tokenizeExpression: let tokens
    currentToken,   \* tokenizeExpression: let currentToken
    previousChar,   \* tokenizeExpression: let previousChar
    pos,            \* tokenizeExpression: position of the for..of iterator
    reducerCalls,   \* the reducers invoked by Node.execute, in order
    outcome         \* the completion of the call

vars == <<xparser, method, args, pc, tokens, currentToken, previousChar, pos,
          reducerCalls, outcome>>

(***************************************************************************)
(* Bounds of the model.                                                    *)
(***************************************************************************)
MaxLen == 3         \* longest enumerated expression
MaxValues == 3      \* longest operand list
MaxNodes == 4       \* largest enumerated tree

(***************************************************************************)
(* JavaScript values and completions.                                      *)
(***************************************************************************)
UNDEFINED == [t |-> "undefined"]
NULL == [t |-> "null"]
Num(n) == [t |-> "number", n |-> n]
Str(s) == [t |-> "string", s |-> s]
Arr(items) == [t |-> "Array", items |-> items]
Fn(f) == [t |-> "function", f |-> f]

Return(v) == [kind |-> "return", value |-> v]
Throw(e) == [kind |-> "throw", error |-> e]
NoOutcome == [kind |-> "none"]

\* for (let x of v) is defined on arrays and strings; a plain object and
\* undefined have no Symbol.iterator and make the loop throw a TypeError.
IsIterable(v) == v.t \in {"Array", "string"}

\* f(...) where f is not a function throws a TypeError.
IsCallable(v) == v.t = "function"

\* obj.p: a property the object does not have reads as undefined.
GetProp(obj, p) == IF p \in DOMAIN obj THEN obj[p] ELSE UNDEFINED

(***************************************************************************)
(* Characters.  A character is a one-character string; CharCode is its     *)
(* UTF-16 code unit, which is what the regular expressions range over.     *)
(***************************************************************************)
CharCode ==
    [c \in {" ", "#", "%", "(", ")", "*", "+", ",", "-", ".", "/",
            "1", "2", "3", "4", "8", "B", "^", "_", "a"} |->
        CASE c = " " -> 32 [] c = "#" -> 35 [] c = "%" -> 37 [] c = "(" -> 40
          [] c = ")" -> 41 [] c = "*" -> 42 [] c = "+" -> 43 [] c = "," -> 44
          [] c = "-" -> 45 [] c = "." -> 46 [] c = "/" -> 47 [] c = "1" -> 49
          [] c = "2" -> 50 [] c = "3" -> 51 [] c = "4" -> 52 [] c = "8" -> 56
          [] c = "B" -> 66 [] c = "^" -> 94 [] c = "_" -> 95 [] c = "a" -> 97]

\* The characters the enumerated expressions are made of.
Chars == {"1", "2", "a", "_", ".", ",", "+", "(", ")", "#"}

\* Every expression of at most MaxLen characters.
Exprs == UNION {[1..n -> Chars] : n \in 0..MaxLen}

(***************************************************************************)
(* The character tests of XParser.  str is a character or the empty        *)
(* string (the initial previousChar), which no regular expression matches. *)
(***************************************************************************)
\* /\d/.test(str)
_isNumber(str) == str # "" /\ CharCode[str] \in 48..57

\* /[a-zA-z]/.test(str): the second range runs from 'A' to LOWER-case 'z'.
_isLetter(str) ==
    str # "" /\ (CharCode[str] \in 97..122 \/ CharCode[str] \in 65..122)

_isDecimalPoint(str) == str = "."

_isComma(str) == str = ","

_isLeftParen(str) == str = "("

_isRightParen(str) == str = ")"

(***************************************************************************)
(* class Operation.                                                        *)
(***************************************************************************)
\* The constructor stores name and isFunction, ignores its executeFunction
\* parameter and assigns this.execute from this.executeFunction, a property
\* no Operation has: the own property execute is undefined and hides the
\* prototype's execute method.
Operation(name, isFunction, executeFunction) ==
    LET this == [t |-> "Operation", name |-> name, isFunction |-> isFunction]
    IN  [t |-> "Operation", name |-> name, isFunction |-> isFunction,
         execute |-> GetProp(this, "executeFunction")]

\* The callbacks handed to values.reduce by the '+', '-' and '*' operations.
ReduceCallback(f, total, value) ==
    CASE f = "PLUS" -> total + value.n
      [] f = "MINUS" -> total - value.n
      [] f = "MULTI" -> total * value.n

\* Array.prototype.reduce(callback) with no initial value, on numbers.
RECURSIVE ReduceFrom(_, _, _, _)
ReduceFrom(f, items, i, acc) ==
    IF i > Len(items) THEN acc
    ELSE ReduceFrom(f, items, i + 1, ReduceCallback(f, acc, items[i]))

ArrayReduce(f, values) ==
    IF Len(values.items) = 0 THEN Throw("TypeError")
    ELSE Return(Num(ReduceFrom(f, values.items, 2, values.items[1].n)))

\* The arrow functions handed to the Operation constructor, by operator.
\* '/' calls values.forEach, which returns undefined whatever its callback
\* returns; '%' calls values.forEeach, which no array has.
ApplyFn(fn, values) ==
    CASE fn.f \in {"PLUS", "MINUS", "MULTI"} -> ArrayReduce(fn.f, values)
      [] fn.f = "DIVI" -> Return(UNDEFINED)
      [] fn.f = "MODULO" -> Throw("TypeError")

\* operation.execute(values)
CallExecute(operation, values) ==
    IF IsCallable(operation.execute) THEN ApplyFn(operation.execute, values)
    ELSE Throw("TypeError")

\* The object _initializeOperations stores in this.operations.  The entry
\* under '%' is constructed with the name DIVI.
_initializeOperations ==
    [t |-> "Object",
     props |-> [k \in {"+", "-", "*", "/", "%"} |->
        CASE k = "+" -> Operation("+", FALSE, Fn("PLUS"))
          [] k = "-" -> Operation("-", FALSE, Fn("MINUS"))
          [] k = "*" -> Operation("*", FALSE, Fn("MULTI"))
          [] k = "/" -> Operation("/", FALSE, Fn("DIVI"))
          [] k = "%" -> Operation("/", FALSE, Fn("MODULO"))]]

\* for (let operation of this.operations): the registry is undefined before
\* connectedCallback and a plain object after it, and neither is iterable.
_isOperation(operations, str) ==
    IF ~IsIterable(operations) THEN Throw("TypeError")
    ELSE Return(\E i \in 1..Len(operations.items) :
                    /\ str = operations.items[i].name
                    /\ operations.items[i].isFunction)

(***************************************************************************)
(* class Value, class Tree, class Node.                                    *)
(***************************************************************************)
Value(value, isVariable) ==
    [t |-> "Value", value |-> value, isVariable |-> isVariable]

DROP_NULL == "drop_null"
NULL_AS_ZERO == "null_as_zero"
THROW_ERROR_ON_NULL == "throw_error"

\* A Node.  parent is null or a reference to the node that lists this node
\* among its children (NodeRef); children is the ordered list of the nodes
\* below it.  The field result is never assigned by any method.
NodeRef == [t |-> "Node"]

MkNode(parent, item, children, nullHandlingMode) ==
    [t |-> "Node", parent |-> parent, item |-> item, children |-> children,
     nullHandlingMode |-> nullHandlingMode]

\* Node.validate, as run by the constructor.  With a Node or null parent and
\* a defined item it evaluates `this.children instanceof List`, and List is
\* not defined; on every other path it evaluates JSON.serialize(...), and
\* JSON has no serialize.
validate(parentIsNodeOrNull, item) ==
    IF parentIsNodeOrNull /\ item # UNDEFINED
    THEN Throw("ReferenceError")
    ELSE Throw("TypeError")

\* new Node(parent, item, children, nullHandlingMode): the constructor ends
\* with this.validate(), whose completion is the constructor's.
NewNode(parentIsNodeOrNull, parent, item, children, nullHandlingMode) ==
    LET this == MkNode(parent, item, children, nullHandlingMode)
        v == validate(parentIsNodeOrNull, item)
    IN  IF v.kind = "throw" THEN v ELSE Return(this)

\* new Tree(item, nullHandlingMode): _createRoot -> _createNode(null, item, []).
NewTree(item, nullHandlingMode) ==
    NewNode(TRUE, NULL, item, <<>>, nullHandlingMode)

\* JSON.stringify(this) follows parent and children: it throws a TypeError
\* on a circular structure, which a node with a Node parent (whose children
\* hold the node) or with a child that refers back to it is.
JSONstringify(this) ==
    IF \/ this.parent = NodeRef
       \/ \E i \in 1..Len(this.children) : this.children[i].parent = NodeRef
    THEN Throw("TypeError")
    ELSE Return(Str("json"))

\* validateLoop with the `continue` of the DROP_NULL branch left out, so
\* that the null falls through to the push after the if (as the value does
\* in the NULL_AS_ZERO branch).
RECURSIVE validateLoopNoContinue(_, _, _, _)
validateLoopNoContinue(this, items, i, acc) ==
    IF i > Len(items) THEN Return(Arr(acc))
    ELSE LET value == items[i] IN
         IF value = NULL
         THEN IF this.nullHandlingMode = NULL_AS_ZERO
              THEN validateLoopNoContinue(this, items, i + 1,
                                          acc \o <<Num(0), value>>)
              ELSE IF this.nullHandlingMode = DROP_NULL
              THEN validateLoopNoContinue(this, items, i + 1, acc \o <<value>>)
              ELSE IF this.nullHandlingMode = THROW_ERROR_ON_NULL
              THEN IF JSONstringify(this).kind = "throw"
                   THEN JSONstringify(this)
                   ELSE Throw("NullValueError")
              ELSE validateLoopNoContinue(this, items, i + 1,
                                          acc \o <<Num(0), value>>)
         ELSE validateLoopNoContinue(this, items, i + 1, acc \o <<value>>)

\* The loop of validateValues from item i on, validatedValues being acc.
\* A null value pushes 0 (NULL_AS_ZERO and the fallback), skips the value
\* (DROP_NULL) or throws; only `continue` skips the push after the if.
RECURSIVE validateLoop(_, _, _, _)
validateLoop(this, items, i, acc) ==
    IF i > Len(items) THEN Return(Arr(acc))
    ELSE LET value == items[i] IN
         IF value = NULL
         THEN IF this.nullHandlingMode = NULL_AS_ZERO
              THEN validateLoop(this, items, i + 1, acc \o <<Num(0), value>>)
              ELSE IF this.nullHandlingMode = DROP_NULL
              THEN validateLoop(this, items, i + 1, acc)
              ELSE IF this.nullHandlingMode = THROW_ERROR_ON_NULL
              THEN IF JSONstringify(this).kind = "throw"
                   THEN JSONstringify(this)
                   ELSE Throw("NullValueError")
              ELSE validateLoop(this, items, i + 1, acc \o <<Num(0), value>>)
         ELSE validateLoop(this, items, i + 1, acc \o <<value>>)

\* Node.validateValues(values): for..of over values throws a TypeError when
\* values is not iterable.
validateValues(this, values) ==
    IF ~IsIterable(values) THEN Throw("TypeError")
    ELSE validateLoop(this, values.items, 1, <<>>)

_childrenAreAllValuesOrNoChildren(this) ==
    IF Len(this.children) = 0 THEN FALSE
    ELSE \A i \in 1..Len(this.children) : this.children[i].item.t = "Value"

\* Node._getValuesOfChildren(): collects the items of the Value children in
\* a local array and ends without a return statement.
_getValuesOfChildren(this) ==
    LET values == Arr([i \in 1..Len(this.children) |-> this.children[i].item])
    IN  UNDEFINED

\* The three statements both branches of Node.execute end with: collect,
\* validate, call this.item.execute.  calls is the log of reducers invoked.
executeItem(this, path, calls) ==
    LET values == _getValuesOfChildren(this)
        validated == validateValues(this, values)
        execute == GetProp(this.item, "execute")
    IN  IF validated.kind = "throw"
        THEN [completion |-> validated, calls |-> calls]
        ELSE IF ~IsCallable(execute)
        THEN [completion |-> Throw("TypeError"), calls |-> calls]
        ELSE LET r == ApplyFn(execute, validated.value) IN
             [completion |-> IF r.kind = "throw" THEN r ELSE Return(UNDEFINED),
              calls |-> Append(calls,
                  [path |-> path, name |-> this.item.name,
                   values |-> validated.value])]

\* Node.execute() on the node at `path` below the root.
RECURSIVE execute(_, _, _), executeChildren(_, _, _, _)
execute(this, path, calls) ==
    IF _childrenAreAllValuesOrNoChildren(this) /\ this.item.t = "Operation"
    THEN executeItem(this, path, calls)
    ELSE LET below == executeChildren(this, path, 1, calls) IN
         IF below.completion.kind = "throw" THEN below
         ELSE IF _childrenAreAllValuesOrNoChildren(this)
         THEN executeItem(this, path, below.calls)
         ELSE [completion |-> Return(UNDEFINED), calls |-> below.calls]

\* for (let child of this.children) child.execute(), from child i on.
executeChildren(this, path, i, calls) ==
    IF i > Len(this.children)
    THEN [completion |-> Return(UNDEFINED), calls |-> calls]
    ELSE LET r == execute(this.children[i], Append(path, i), calls) IN
         IF r.completion.kind = "throw" THEN r
         ELSE executeChildren(this, path, i + 1, r.calls)

(***************************************************************************)
(* class XParser.                                                          *)
(***************************************************************************)
\* The methods class XParser defines; this.m(...) for any other m calls
\* undefined and throws a TypeError.
XParserMethods ==
    {"connectedCallback", "tokenizeExpression", "_preprocessExpression",
     "calculate", "_initializeOperations", "_isNumber", "_isLetter",
     "_isDecimalPoint", "_isComma", "_isOperation", "_isLeftParen",
     "_isRightParen"}

Flush(toks, cur) == IF cur # <<>> THEN Append(toks, cur) ELSE toks

\* One iteration of the for..of loop of tokenizeExpression on character
\* char: the locals after it, and `thrown`, the error that ended the call
\* ("" when the iteration completed).  The comma branch is a `continue`
\* and leaves previousChar alone.  The else branch only writes to the
\* console.
tokenizeStep(operations, toks, cur, prev, char) ==
    LET same == [thrown |-> "", tokens |-> toks, currentToken |-> cur,
                 previousChar |-> char]
    IN
    IF _isNumber(char)
    THEN IF ~_isNumber(prev) /\ ~_isDecimalPoint(prev) /\ cur # <<>>
         THEN [same EXCEPT !.tokens = Append(toks, cur), !.currentToken = <<char>>]
         ELSE [same EXCEPT !.currentToken = Append(cur, char)]
    ELSE IF _isLetter(char)
    THEN IF ~_isLetter(prev) /\ cur # <<>>
         THEN [same EXCEPT !.tokens = Append(toks, cur), !.currentToken = <<char>>]
         ELSE [same EXCEPT !.currentToken = Append(cur, char)]
    ELSE IF _isComma(char)
    THEN [same EXCEPT !.previousChar = prev]
    ELSE IF _isDecimalPoint(char)
    THEN [same EXCEPT !.currentToken = Append(cur, char)]
    ELSE LET isOp == _isOperation(operations, char) IN
         IF isOp.kind = "throw"
         THEN [same EXCEPT !.thrown = isOp.error, !.previousChar = prev]
         ELSE IF isOp.value \/ _isLeftParen(char)
         THEN [same EXCEPT !.tokens = Append(Flush(toks, cur), <<char>>),
                           !.currentToken = <<>>]
         ELSE same

\* tokenizeExpression(expression) from character i on: `return tokens`
\* follows the loop directly, so what is left in currentToken is not pushed.
RECURSIVE tokenizeFrom(_, _, _, _, _, _)
tokenizeFrom(operations, expression, i, toks, cur, prev) ==
    IF i > Len(expression) THEN Return(Arr(toks))
    ELSE LET st == tokenizeStep(operations, toks, cur, prev, expression[i]) IN
         IF st.thrown # "" THEN Throw(st.thrown)
         ELSE tokenizeFrom(operations, expression, i + 1, st.tokens,
                           st.currentToken, st.previousChar)

tokenizeExpression(operations, expression) ==
    tokenizeFrom(operations, expression, 1, <<>>, <<>>, "")

\* swapPeriodsAndCommas(str) of utils.js: builds result character by
\* character and ends without returning it.
RECURSIVE swapFrom(_, _, _)
swapFrom(str, i, result) ==
    IF i > Len(str) THEN result
    ELSE swapFrom(str, i + 1,
            Append(result, IF str[i] = "," THEN "."
                           ELSE IF str[i] = "." THEN "," ELSE str[i]))

swapPeriodsAndCommas(str) ==
    LET result == swapFrom(str, 1, <<>>) IN UNDEFINED

\* String.prototype.replaceAll(char, replacement).
RECURSIVE replaceAll(_, _, _)
replaceAll(str, char, replacement) ==
    IF str = <<>> THEN <<>>
    ELSE (IF Head(str) = char THEN replacement ELSE <<Head(str)>>)
         \o replaceAll(Tail(str), char, replacement)

\* _preprocessExpression(expression).  `!expression instanceof String` is
\* (!expression) instanceof String, false for every expression, so the
\* guard never throws.  The third replaceAll has no second argument and
\* puts the text "undefined" in place of each newline.
_preprocessExpression(internationalFormat, expression) ==
    LET swapped == IF internationalFormat
                   THEN swapPeriodsAndCommas(expression)
                   ELSE Str(expression)
    IN  IF swapped.t # "string" THEN Throw("TypeError")
        ELSE Return(Str(
            replaceAll(replaceAll(replaceAll(swapped.s, " ", <<>>), "\t", <<>>),
                       "\n", <<"u", "n", "d", "e", "f", "i", "n", "e", "d">>)))

\* calculate(expression, variableMap=None, callback, internationalFormat):
\* the component's fields after the call, and its completion.  None is not
\* defined, so an omitted variableMap throws a ReferenceError before the
\* body; the body ends by calling this._tokenizeExpression and has no
\* return statement.
calculate(this, expression, variableMap, internationalFormat) ==
    IF variableMap = UNDEFINED
    THEN [this |-> this, completion |-> Throw("ReferenceError")]
    ELSE
    LET this1 == [this EXCEPT !.internationalFormat = internationalFormat]
        pre == _preprocessExpression(internationalFormat, expression)
    IN  IF pre.kind = "throw" THEN [this |-> this1, completion |-> pre]
        ELSE
        LET this2 == [this1 EXCEPT !.expression = pre.value,
                                   !.variableMap = variableMap,
                                   !.callback = Fn("callback")]
        IN  IF "_tokenizeExpression" \notin XParserMethods
            THEN [this |-> this2, completion |-> Throw("TypeError")]
            ELSE LET toks == tokenizeExpression(this2.operations, pre.value.s) IN
                 IF toks.kind = "throw" THEN [this |-> this2, completion |-> toks]
                 ELSE [this |-> [this2 EXCEPT !.tokens = toks.value],
                       completion |-> Return(UNDEFINED)]

(***************************************************************************)
(* The calls the model makes.                                              *)
(***************************************************************************)
\* Operand lists handed to validateValues: numbers, null and undefined.
Operands == {Num(1), Num(2), NULL, UNDEFINED}
OperandLists == {Arr(l) : l \in UNION {[1..n -> Operands] : n \in 0..MaxValues}}

\* Operand lists handed to an Operation's execute: two or more numbers.
Numbers == {Num(1), Num(2), Num(3)}
NumberLists == {Arr(l) : l \in UNION {[1..n -> Numbers] : n \in 2..MaxValues}}

\* Null-handling modes: the three of class Tree and one that is none of them.
Modes == {DROP_NULL, NULL_AS_ZERO, THROW_ERROR_ON_NULL}
AnyModes == Modes \cup {"other"}

\* Items of tree nodes: literal 2, a missing (null) literal, the variable B,
\* and the registered operations '+' and '-'.
LeafItems == {Value(Num(2), FALSE), Value(NULL, FALSE), Value(Str("B"), TRUE)}
OperationItems == {_initializeOperations.props[k] : k \in {"+", "-"}}

\* The trees of exactly n nodes whose root has the given parent; every node
\* below the root has parent `link` (a back-reference, or null when the
\* builder left it unset) and every node carries the tree's mode.
RECURSIVE TreesOfSize(_, _, _, _), ForestsOfSize(_, _, _)
TreesOfSize(n, parent, link, mode) ==
    IF n = 1
    THEN {MkNode(parent, item, <<>>, mode) : item \in LeafItems \cup OperationItems}
    ELSE {MkNode(parent, item, children, mode) :
            item \in OperationItems, children \in ForestsOfSize(n - 1, link, mode)}

ForestsOfSize(n, link, mode) ==
    IF n = 0 THEN {<<>>}
    ELSE UNION {{<<t>> \o f : t \in TreesOfSize(m, link, link, mode),
                              f \in ForestsOfSize(n - m, link, mode)} :
                m \in 1..n}

Trees ==
    UNION {TreesOfSize(n, NULL, link, mode) :
             n \in 1..MaxNodes, link \in {NULL, NodeRef}, mode \in Modes}

\* Variable mappings supplied with an evaluation: B absent, B present and
\* null.  Node.execute has no parameter and reads no field that could hold
\* the mapping.
VariableMaps ==
    {[t |-> "Object", props |-> [k \in {"A"} |-> Num(2)]],
     [t |-> "Object", props |-> [k \in {"A", "B"} |->
                                    IF k = "A" THEN Num(2) ELSE NULL]]}

\* Expressions handed to calculate: the enumerated ones and three longer.
CalcExprs ==
    Exprs \cup {<<"2", "+", "3", "*", "4">>,
                <<"(", "2", "+", "3", ")", "*", "4">>,
                <<"8", "-", "3", "-", "2">>,
                <<"8", " ", "/", "4">>}

Calls ==
    [method : {"tokenizeExpression"}, expression : Exprs]
    \cup [method : {"calculate"}, expression : CalcExprs,
          variableMap : VariableMaps \cup {UNDEFINED},
          internationalFormat : BOOLEAN]
    \cup [method : {"Operation.execute"}, key : {"+", "-", "*", "/", "%"},
          values : NumberLists]
    \cup [method : {"validateValues"},
          this : {MkNode(parent, Value(Num(1), FALSE), <<>>, mode) :
                    parent \in {NULL, NodeRef}, mode \in AnyModes},
          values : OperandLists]
    \cup [method : {"execute"}, this : Trees, variableMap : VariableMaps]
    \cup [method : {"new Node"}, parentIsNodeOrNull : BOOLEAN,
          item : LeafItems \cup OperationItems \cup {UNDEFINED},
          nullHandlingMode : Modes]
    \cup [method : {"new Tree"},
          item : LeafItems \cup OperationItems \cup {UNDEFINED},
          nullHandlingMode : Modes]

(***************************************************************************)
(* The state machine.                                                      *)
(***************************************************************************)
\* A component after construction: every class field is undefined.
Init ==
    /\ xparser = [tree |-> UNDEFINED, expression |-> UNDEFINED,
                  variableMap |-> UNDEFINED, callback |-> UNDEFINED,
                  operations |-> UNDEFINED, tokens |-> UNDEFINED,
                  internationalFormat |-> UNDEFINED]
    /\ args \in Calls
    /\ method = args.method
    /\ pc = "idle"
    /\ tokens = <<>>
    /\ currentToken = <<>>
    /\ previousChar = ""
    /\ pos = 1
    /\ reducerCalls = <<>>
    /\ outcome = NoOutcome

\* connectedCallback(): the lifecycle hook, when it runs before the call.
ConnectedCallback ==
    /\ pc = "idle"
    /\ xparser' = [xparser EXCEPT !.operations = _initializeOperations]
    /\ UNCHANGED <<method, args, pc, tokens, currentToken, previousChar, pos,
                   reducerCalls, outcome>>

\* tokenizeExpression(expression): the three let statements.
TokenizeBegin ==
    /\ pc = "idle"
    /\ method = "tokenizeExpression"
    /\ pc' = "loop"
    /\ tokens' = <<>>
    /\ currentToken' = <<>>
    /\ previousChar' = ""
    /\ pos' = 1
    /\ UNCHANGED <<xparser, method, args, reducerCalls, outcome>>

\* One iteration of its loop.
TokenizeChar ==
    /\ pc = "loop"
    /\ pos <= Len(args.expression)
    /\ LET st == tokenizeStep(xparser.operations, tokens, currentToken,
                              previousChar, args.expression[pos])
       IN  /\ tokens' = st.tokens
           /\ currentToken' = st.currentToken
           /\ previousChar' = st.previousChar
           /\ IF st.thrown # ""
              THEN pc' = "done" /\ outcome' = Throw(st.thrown) /\ pos' = pos
              ELSE pc' = "loop" /\ outcome' = outcome /\ pos' = pos + 1
    /\ UNCHANGED <<xparser, method, args, reducerCalls>>

\* return tokens
TokenizeReturn ==
    /\ pc = "loop"
    /\ pos > Len(args.expression)
    /\ pc' = "done"
    /\ outcome' = Return(Arr(tokens))
    /\ UNCHANGED <<xparser, method, args, tokens, currentToken, previousChar,
                   pos, reducerCalls>>

Calculate ==
    /\ pc = "idle"
    /\ method = "calculate"
    /\ LET r == calculate(xparser, args.expression, args.variableMap,
                          args.internationalFormat)
       IN  xparser' = r.this /\ outcome' = r.completion
    /\ pc' = "done"
    /\ UNCHANGED <<method, args, tokens, currentToken, previousChar, pos,
                   reducerCalls>>

\* this.operations[key].execute(values), once the registry exists.
OperationExecute ==
    /\ pc = "idle"
    /\ method = "Operation.execute"
    /\ xparser.operations # UNDEFINED
    /\ outcome' = CallExecute(xparser.operations.props[args.key], args.values)
    /\ pc' = "done"
    /\ UNCHANGED <<xparser, method, args, tokens, currentToken, previousChar,
                   pos, reducerCalls>>

ValidateValues ==
    /\ pc = "idle"
    /\ method = "validateValues"
    /\ outcome' = validateValues(args.this, args.values)
    /\ pc' = "done"
    /\ UNCHANGED <<xparser, method, args, tokens, currentToken, previousChar,
                   pos, reducerCalls>>

\* root.execute()
Execute ==
    /\ pc = "idle"
    /\ method = "execute"
    /\ LET r == execute(args.this, <<>>, <<>>)
       IN  outcome' = r.completion /\ reducerCalls' = r.calls
    /\ pc' = "done"
    /\ UNCHANGED <<xparser, method, args, tokens, currentToken, previousChar,
                   pos>>

ConstructNode ==
    /\ pc = "idle"
    /\ method = "new Node"
    /\ outcome' = NewNode(args.parentIsNodeOrNull,
                          IF args.parentIsNodeOrNull THEN NULL ELSE Str("parent"),
                          args.item, <<>>, args.nullHandlingMode)
    /\ pc' = "done"
    /\ UNCHANGED <<xparser, method, args, tokens, currentToken, previousChar,
                   pos, reducerCalls>>

ConstructTree ==
    /\ pc = "idle"
    /\ method = "new Tree"
    /\ outcome' = NewTree(args.item, args.nullHandlingMode)
    /\ pc' = "done"
    /\ UNCHANGED <<xparser, method, args, tokens, currentToken, previousChar,
                   pos, reducerCalls>>

Next ==
    \/ ConnectedCallback
    \/ TokenizeBegin
    \/ TokenizeChar
    \/ TokenizeReturn
    \/ Calculate
    \/ OperationExecute
    \/ ValidateValues
    \/ Execute
    \/ ConstructNode
    \/ ConstructTree

Spec == Init /\ [][Next]_vars

(***************************************************************************)
(* Standard arithmetic on an expression text, used to state what calculate *)
(* is expected to produce: integer literals, + - * / %, parentheses;       *)
(* * / % bind tighter than + -, equal precedence associates to the left.   *)
(* A parse is [ok, val, pos]: pos is the first character not consumed.     *)
(* An inexact or zero division, or a remainder on a negative left operand  *)
(* or a non-positive divisor, leaves the integers and is reported not ok.  *)
(***************************************************************************)
StdFail == [ok |-> FALSE, val |-> 0, pos |-> 0]

RECURSIVE StdNumber(_, _, _)
StdNumber(s, i, acc) ==
    IF i <= Len(s) /\ _isNumber(s[i])
    THEN StdNumber(s, i + 1, 10 * acc + (CharCode[s[i]] - 48))
    ELSE [ok |-> TRUE, val |-> acc, pos |-> i]

StdApply(op, a, b) ==
    CASE op = "+" -> [ok |-> TRUE, val |-> a + b]
      [] op = "-" -> [ok |-> TRUE, val |-> a - b]
      [] op = "*" -> [ok |-> TRUE, val |-> a * b]
      [] op = "/" -> IF b > 0 /\ a >= 0 /\ a % b = 0
                     THEN [ok |-> TRUE, val |-> a \div b]
                     ELSE [ok |-> FALSE, val |-> 0]
      [] op = "%" -> IF b > 0 /\ a >= 0
                     THEN [ok |-> TRUE, val |-> a % b]
                     ELSE [ok |-> FALSE, val |-> 0]

RECURSIVE StdExpr(_, _), StdExprTail(_, _, _), StdTerm(_, _),
          StdTermTail(_, _, _), StdFactor(_, _)
StdFactor(s, i) ==
    IF i > Len(s) THEN StdFail
    ELSE IF s[i] = "("
    THEN LET e == StdExpr(s, i + 1) IN
         IF e.ok /\ e.pos <= Len(s) /\ s[e.pos] = ")"
         THEN [e EXCEPT !.pos = e.pos + 1]
         ELSE StdFail
    ELSE IF _isNumber(s[i]) THEN StdNumber(s, i, 0)
    ELSE StdFail

StdTermTail(s, i, acc) ==
    IF i <= Len(s) /\ s[i] \in {"*", "/", "%"}
    THEN LET f == StdFactor(s, i + 1) IN
         IF ~f.ok THEN StdFail
         ELSE LET r == StdApply(s[i], acc, f.val) IN
              IF r.ok THEN StdTermTail(s, f.pos, r.val) ELSE StdFail
    ELSE [ok |-> TRUE, val |-> acc, pos |-> i]

StdTerm(s, i) ==
    LET f == StdFactor(s, i) IN
    IF f.ok THEN StdTermTail(s, f.pos, f.val) ELSE StdFail

StdExprTail(s, i, acc) ==
    IF i <= Len(s) /\ s[i] \in {"+", "-"}
    THEN LET f == StdTerm(s, i + 1) IN
         IF ~f.ok THEN StdFail
         ELSE StdExprTail(s, f.pos, StdApply(s[i], acc, f.val).val)
    ELSE [ok |-> TRUE, val |-> acc, pos |-> i]

StdExpr(s, i) ==
    LET f == StdTerm(s, i) IN
    IF f.ok THEN StdExprTail(s, f.pos, f.val) ELSE StdFail

IsArithmetic(s) == StdExpr(s, 1).ok /\ StdExpr(s, 1).pos = Len(s) + 1

StdValue(s) == StdExpr(s, 1).val

\* C1: for every valid expression of numeric literals, + - * / % and
\* parentheses, calculate produces the value of standard arithmetic
\* (* / % above + -, equal precedence left to right).
C1_CalculateIsStandardArithmetic ==
    (pc = "done" /\ method = "calculate" /\ IsArithmetic(args.expression)
        /\ args.variableMap # UNDEFINED)
    => outcome = Return(Num(StdValue(args.expression)))

(***************************************************************************)
(* Trees: the node at a path, and the paths of a tree.                     *)
(***************************************************************************)
RECURSIVE NodeAt(_, _)
NodeAt(node, path) ==
    IF path = <<>> THEN node ELSE NodeAt(node.children[Head(path)], Tail(path))

RECURSIVE PathsOf(_)
PathsOf(node) ==
    {<<>>} \cup UNION {{<<i>> \o p : p \in PathsOf(node.children[i])} :
                        i \in 1..Len(node.children)}

OperationPaths(root) == {p \in PathsOf(root) : NodeAt(root, p).item.t = "Operation"}

LeafItemsOf(root) ==
    {NodeAt(root, p).item : p \in {q \in PathsOf(root) : NodeAt(root, q).item.t = "Value"}}

\* q lies strictly below p.
IsBelow(q, p) == Len(q) > Len(p) /\ SubSeq(q, 1, Len(p)) = p

\* An expression tree as the parser is to build it: every Operation node has
\* children.
IsExpressionTree(root) ==
    \A p \in OperationPaths(root) : Len(NodeAt(root, p).children) > 0

\* C2: Node.execute on the root invokes the reducer of every Operation node
\* exactly once, after the reducers of the Operation nodes below it, with
\* one operand per child, and completes with the root evaluated.  Stated
\* for trees of operations over literal numbers.
C2_EveryReducerOnceChildrenFirst ==
    (pc = "done" /\ method = "execute" /\ IsExpressionTree(args.this)
        /\ LeafItemsOf(args.this) \subseteq {Value(Num(2), FALSE)})
    => /\ outcome.kind = "return"
       /\ \A p \in OperationPaths(args.this) :
            Cardinality({i \in 1..Len(reducerCalls) : reducerCalls[i].path = p}) = 1
       /\ \A i, j \in 1..Len(reducerCalls) :
            IsBelow(reducerCalls[j].path, reducerCalls[i].path) => j < i
       /\ \A i \in 1..Len(reducerCalls) :
            Len(reducerCalls[i].values.items)
                = Len(NodeAt(args.this, reducerCalls[i].path).children)

\* C3: under NULL_AS_ZERO validateValues returns a list as long as its
\* input, with 0 in place of each null and every other operand unchanged in
\* its position.
C3_NullAsZeroSubstitutes ==
    (pc = "done" /\ method = "validateValues"
        /\ args.this.nullHandlingMode = NULL_AS_ZERO)
    => outcome = Return(Arr([i \in 1..Len(args.values.items) |->
                    IF args.values.items[i] = NULL THEN Num(0)
                    ELSE args.values.items[i]]))

IsNotNull(value) == value # NULL

\* C4: under DROP_NULL validateValues returns exactly the subsequence of
\* the non-null operands of its input, in their original order.
C4_DropNullKeepsNonNull ==
    (pc = "done" /\ method = "validateValues"
        /\ args.this.nullHandlingMode = DROP_NULL)
    => outcome = Return(Arr(SelectSeq(args.values.items, IsNotNull)))

\* A DROP_NULL call has returned on a list with a null followed by an
\* operand that is kept.
C4_Witness ==
    /\ pc = "done" /\ method = "validateValues"
    /\ args.this.nullHandlingMode = DROP_NULL
    /\ \E i, j \in 1..Len(args.values.items) :
         i < j /\ args.values.items[i] = NULL /\ args.values.items[j] # NULL
    /\ outcome.kind = "return"
    /\ Len(outcome.value.items) < Len(args.values.items)

\* A node that collects a missing operand: an Operation node with a leaf
\* child whose value is null.
HasNullOperand(root) ==
    \E p \in OperationPaths(root) :
        \E i \in 1..Len(NodeAt(root, p).children) :
            NodeAt(root, p).children[i].item = Value(NULL, FALSE)

\* C5: under THROW_ERROR_ON_NULL an evaluation in which a node collects a
\* null operand fails with NullValueError, without invoking that node's
\* reducer and without a result; with no null operand no NullValueError is
\* raised.
C5_ThrowOnNullFailsEvaluation ==
    (pc = "done" /\ method = "execute" /\ IsExpressionTree(args.this)
        /\ args.this.nullHandlingMode = THROW_ERROR_ON_NULL)
    => IF HasNullOperand(args.this)
       THEN /\ outcome = Throw("NullValueError")
            /\ \A i \in 1..Len(reducerCalls) :
                 \A k \in 1..Len(NodeAt(args.this, reducerCalls[i].path).children) :
                   NodeAt(args.this, reducerCalls[i].path).children[k].item
                       # Value(NULL, FALSE)
       ELSE outcome # Throw("NullValueError")

(***************************************************************************)
(* The tokenizer's contract, character by character.                       *)
(***************************************************************************)
\* The operator symbols the registry is to hold, and the letters a-z, A-Z.
OperatorSymbols == {"+", "-", "*", "/", "%"}
IsAsciiLetter(c) == CharCode[c] \in 97..122 \/ CharCode[c] \in 65..90

IsRecognised(c) ==
    \/ _isNumber(c) \/ IsAsciiLetter(c) \/ c = "." \/ c = ","
    \/ c \in OperatorSymbols \/ c = "(" \/ c = ")"

AllRecognised(expression) ==
    \A i \in 1..Len(expression) : IsRecognised(expression[i])

RECURSIVE Concat(_)
Concat(toks) == IF toks = <<>> THEN <<>> ELSE Head(toks) \o Concat(Tail(toks))

IsNotComma(c) == c # ","

\* C6: on an input of digits, letters, '.', ',', operator symbols and
\* parentheses, the tokens returned, concatenated in order, are the input
\* with every ',' removed, the last run included.
C6_TokensConcatenateToInput ==
    (pc = "done" /\ method = "tokenizeExpression"
        /\ xparser.operations # UNDEFINED /\ AllRecognised(args.expression))
    => /\ outcome.kind = "return"
       /\ Concat(outcome.value.items) = SelectSeq(args.expression, IsNotComma)

\* The names of the registered operations whose isFunction is false.
RegisteredSymbols(operations) ==
    IF operations.t # "Object" THEN {}
    ELSE {operations.props[k].name :
            k \in {x \in DOMAIN operations.props : ~operations.props[x].isFunction}}

\* C7: every occurrence of a registered non-function operator symbol, of
\* '(' or of ')' first flushes a non-empty current run as a token and is
\* then emitted as a one-character token; a character counts as an operator
\* symbol exactly when it is the name of a registered non-function
\* operation.  Stated of each loop iteration of a component whose registry
\* is initialised, on a character that is no digit, letter, '.' or ','.
C7_SymbolsFlushAndEmit ==
    [][(/\ pc = "loop" /\ pos <= Len(args.expression)
        /\ xparser.operations # UNDEFINED
        /\ LET c == args.expression[pos] IN
             ~_isNumber(c) /\ ~IsAsciiLetter(c) /\ c # "." /\ c # ",")
       => LET c == args.expression[pos] IN
          IF c \in RegisteredSymbols(xparser.operations) \cup {"(", ")"}
          THEN /\ pc' = "loop"
               /\ tokens' = Append(Flush(tokens, currentToken), <<c>>)
               /\ currentToken' = <<>>
          ELSE tokens' # Append(Flush(tokens, currentToken), <<c>>)]_vars

\* C8: tokenizeExpression fails with a LexError, returning no tokens, when
\* the input holds a character that is no digit, letter (a-z, A-Z), '.',
\* ',', operator symbol or parenthesis, and does not fail otherwise.
C8_LexErrorIffUnrecognised ==
    (pc = "done" /\ method = "tokenizeExpression"
        /\ xparser.operations # UNDEFINED)
    => IF AllRecognised(args.expression)
       THEN outcome.kind = "return"
       ELSE outcome = Throw("LexError")

\* The left-to-right reduction ((v1 op v2) op v3)... of a list of numbers.
RECURSIVE LeftReduce(_, _, _, _)
LeftReduce(op, items, i, acc) ==
    IF i > Len(items) THEN [ok |-> TRUE, val |-> acc]
    ELSE LET r == StdApply(op, acc, items[i].n) IN
         IF r.ok THEN LeftReduce(op, items, i + 1, r.val) ELSE r

\* C9: after _initializeOperations, execute of each built-in Operation on a
\* list of two or more numbers returns the left-to-right reduction of the
\* list: a number, and the exact one wherever the reduction stays in the
\* integers.
C9_BuiltInsReduceLeftToRight ==
    (pc = "done" /\ method = "Operation.execute")
    => /\ outcome.kind = "return"
       /\ outcome.value.t = "number"
       /\ LET r == LeftReduce(args.key, args.values.items, 2,
                              args.values.items[1].n)
          IN  r.ok => outcome.value = Num(r.val)

\* A variable leaf whose name the mapping does not hold / holds with null.
HasUnresolvedVariable(root, variableMap) ==
    \E item \in LeafItemsOf(root) :
        item.isVariable /\ item.value.s \notin DOMAIN variableMap.props

HasNullVariable(root, variableMap) ==
    \E item \in LeafItemsOf(root) :
        /\ item.isVariable
        /\ item.value.s \in DOMAIN variableMap.props
        /\ variableMap.props[item.value.s] = NULL

\* C10: evaluating a tree with a variable leaf whose name the supplied
\* mapping does not hold fails with UnresolvedVariableError under each of
\* the three modes; NullValueError is raised only under THROW_ERROR_ON_NULL
\* for a name the mapping holds with a null value.
C10_UnresolvedVariableFails ==
    (pc = "done" /\ method = "execute" /\ IsExpressionTree(args.this))
    => /\ HasUnresolvedVariable(args.this, args.variableMap)
            => outcome = Throw("UnresolvedVariableError")
       /\ outcome = Throw("NullValueError")
            => /\ args.this.nullHandlingMode = THROW_ERROR_ON_NULL
               /\ HasNullVariable(args.this, args.variableMap)

\* C11: after _initializeOperations the keys of the registry are exactly
\* '+', '-', '*', '/' and '%', and the Operation stored under each key k has
\* name k and isFunction false, so that looking an operation up by its name
\* returns that operation.
C11_RegistryKeyedByName ==
    xparser.operations # UNDEFINED
    => /\ DOMAIN xparser.operations.props = {"+", "-", "*", "/", "%"}
       /\ \A k \in DOMAIN xparser.operations.props :
            /\ xparser.operations.props[k].name = k
            /\ xparser.operations.props[k].isFunction = FALSE
            /\ xparser.operations.props[xparser.operations.props[k].name]
                   = xparser.operations.props[k]

====
